---- MODULE Spec2Model ----
(***************************************************************************)
(* Model of health_check.py: main() reads a host list, probes every host   *)
(* with ping, DNS and a TCP connect, appends one row per host and hands    *)
(* the rows to write_results.                                              *)
(*                                                                         *)
(* Text is modelled as sequences of one-character strings.  A line is the  *)
(* text the file iterator yields; its terminator is whitespace and is      *)
(* covered by the whitespace character of Pads.                            *)
(***************************************************************************)
EXTENDS Integers, Sequences, FiniteSets, TLC

\* ---------------------------------------------------------------- bounds
MaxLines == 2

\* ---------------------------------------------------------------- inputs
\* A line of the input file is a core text between optional whitespace.
\* The cores: nothing (a blank line), two host names, and a name whose
\* first label is empty.
Whitespace == {" "}
Pads == {<<>>, <<" ">>}
Cores == {<<>>, <<"a">>, <<"b">>, <<".", "a">>}
Lines == {l \o c \o r : l \in Pads, c \in Cores, r \in Pads}

RECURSIVE SeqsUpTo(_, _)
SeqsUpTo(S, n) ==
    IF n = 0 THEN {<<>>}
    ELSE LET shorter == SeqsUpTo(S, n - 1)
         IN  shorter \cup {Append(s, c) : s \in {t \in shorter : Len(t) = n - 1}, c \in S}

Files == SeqsUpTo(Lines, MaxLines)

\* Faults open()/decoding can raise while read_hosts runs ("none": no fault).
ReadFaults == {"none", "OSError", "UnicodeDecodeError"}
\* Faults open()/writer can raise while write_results runs.
WriteFaults == {"none", "OSError"}

ProbeNames == {"ping", "dns", "port"}
HostIdx == 1..MaxLines

\* ------------------------------------------------------- exception classes
\* Python's exception hierarchy for the exceptions the library calls raise.
OSErrorClasses == {"OSError", "FileNotFoundError", "gaierror", "timeout",
                   "ConnectionRefusedError"}
ExceptionClasses == OSErrorClasses \cup {"ValueError", "UnicodeError"}

IsInstance(e, cls) ==
    CASE cls = "Exception"    -> e \in ExceptionClasses
      [] cls = "socket.error" -> e \in OSErrorClasses
      [] OTHER                -> e = cls

\* Result of a probe function: it returns a boolean or lets e propagate.
Return(b) == [kind |-> "return", value |-> b, exc |-> "none"]
Raise(e) == [kind |-> "raise", value |-> FALSE, exc |-> e]

\* ------------------------------------------------------------ str.strip()
RECURSIVE lstrip(_)
lstrip(s) ==
    IF s = <<>> THEN s
    ELSE IF Head(s) \in Whitespace THEN lstrip(Tail(s)) ELSE s

RECURSIVE rstrip(_)
rstrip(s) ==
    IF s = <<>> THEN s
    ELSE IF s[Len(s)] \in Whitespace THEN rstrip(SubSeq(s, 1, Len(s) - 1)) ELSE s

\* Variant: only leading whitespace is removed.
strip_leading_only(s) == lstrip(s)

strip(s) == rstrip(lstrip(s))

\* ------------------------------------------------------------ read_hosts
RECURSIVE read_hosts_loop(_, _)
read_hosts_loop(lines, hosts) ==
    IF lines = <<>> THEN hosts
    ELSE LET h == strip(Head(lines))
         IN  read_hosts_loop(Tail(lines),
                             IF h # <<>> THEN Append(hosts, h) ELSE hosts)

read_hosts(lines) == read_hosts_loop(lines, <<>>)

\* ---------------------------------------------------------------- probes
\* subprocess.run(["ping", ...]): exit status 0, non-zero exit status (no
\* reply within -w timeout), or the executable cannot be started.
PingOutcomes == {"rc0", "rc1", "FileNotFoundError"}

\* Variant: the exit status of ping is not looked at.
check_ping_any_exit(o) ==
    IF o \in {"rc0", "rc1"} THEN Return(TRUE)
    ELSE IF IsInstance(o, "Exception") THEN Return(FALSE)
    ELSE Raise(o)

check_ping(o) ==
    IF o \in {"rc0", "rc1"} THEN Return(o = "rc0")
    ELSE IF IsInstance(o, "Exception") THEN Return(FALSE)
    ELSE Raise(o)

\* socket.gethostbyname encodes a str host with the idna codec before it
\* resolves: a label that is empty and not the last one raises UnicodeError.
IdnaLabelError(host) ==
    \E k \in 1..Len(host) : host[k] = "." /\ (k = 1 \/ host[k - 1] = ".")

DnsOutcomes(host) ==
    IF IdnaLabelError(host) THEN {"UnicodeError"} ELSE {"resolved", "gaierror"}

check_dns(o) ==
    IF o = "resolved" THEN Return(TRUE)
    ELSE IF IsInstance(o, "socket.error") THEN Return(FALSE)
    ELSE Raise(o)

\* socket.create_connection((host, port), timeout): connected, or a fault.
TcpOutcomes(host) ==
    IF IdnaLabelError(host) THEN {"UnicodeError"}
    ELSE {"connected", "timeout", "ConnectionRefusedError"}

check_tcp_port(o) ==
    IF o = "connected" THEN Return(TRUE)
    ELSE IF IsInstance(o, "Exception") THEN Return(FALSE)
    ELSE Raise(o)

\* "OK" if x else "FAIL"
Status(ok) == IF ok THEN "OK" ELSE "FAIL"

Row(h, p, d, t) ==
    [host |-> h, ping_status |-> Status(p), dns_status |-> Status(d),
     port_status |-> Status(t)]

\* ----------------------------------------------------------------- state
VARIABLES
    file,       \* the input file: its lines and the fault reading it raises
    pc,         \* main's position
    hosts,      \* main's hosts
    idx,        \* number of hosts the for loop has taken from hosts
    host,       \* loop variable
    ping_ok, dns_ok, port_ok,
    results,    \* main's results
    outfile,    \* the output file on disk
    handed,     \* argument of each write_results call, in call order
    under,      \* per host and probe: what the underlying operation did
    calls,      \* per host and probe: number of invocations
    escaped     \* exception that left main, "none" if none did

vars == <<file, pc, hosts, idx, host, ping_ok, dns_ok, port_ok, results,
          outfile, handed, under, calls, escaped>>

NoFile == [exists |-> FALSE, header |-> FALSE, rows |-> <<>>]

Init ==
    /\ file \in [lines : Files, fault : ReadFaults]
    /\ pc = "read"
    /\ hosts = <<>>
    /\ idx = 0
    /\ host = <<>>
    /\ ping_ok = FALSE /\ dns_ok = FALSE /\ port_ok = FALSE
    /\ results = <<>>
    /\ outfile = NoFile
    /\ handed = <<>>
    /\ under = [i \in HostIdx |-> [p \in ProbeNames |-> "idle"]]
    /\ calls = [i \in HostIdx |-> [p \in ProbeNames |-> 0]]
    /\ escaped = "none"

\* Variant: a failure to read the input is swallowed and the host list is
\* taken to be empty.
ReadHosts_swallow ==
    /\ pc = "read"
    /\ hosts' = IF file.fault = "none" THEN read_hosts(file.lines) ELSE <<>>
    /\ pc' = "for"
    /\ UNCHANGED <<file, idx, host, ping_ok, dns_ok, port_ok, results,
                   outfile, handed, under, calls, escaped>>

\* hosts = read_hosts(args.input, args.encoding); results = []
ReadHosts ==
    /\ pc = "read"
    /\ IF file.fault = "none"
       THEN /\ hosts' = read_hosts(file.lines)
            /\ pc' = "for"
            /\ escaped' = escaped
       ELSE /\ hosts' = hosts
            /\ pc' = "fatal"
            /\ escaped' = file.fault
    /\ UNCHANGED <<file, idx, host, ping_ok, dns_ok, port_ok, results,
                   outfile, handed, under, calls>>

\* for host in hosts:
ForNext ==
    /\ pc = "for"
    /\ IF idx < Len(hosts)
       THEN /\ idx' = idx + 1
            /\ host' = hosts[idx + 1]
            /\ pc' = "ping"
       ELSE /\ idx' = idx
            /\ host' = host
            /\ pc' = "write"
    /\ UNCHANGED <<file, hosts, ping_ok, dns_ok, port_ok, results, outfile,
                   handed, under, calls, escaped>>

\* A probe's underlying operation is started for the current host.
Call(p, at, to) ==
    /\ pc = at
    /\ pc' = to
    /\ under' = [under EXCEPT ![idx][p] = "running"]
    /\ calls' = [calls EXCEPT ![idx][p] = @ + 1]
    /\ UNCHANGED <<file, hosts, idx, host, ping_ok, dns_ok, port_ok, results,
                   outfile, handed, escaped>>

\* What the underlying operation did, for the record in under.
Underlying(success, r) ==
    IF success THEN "success"
    ELSE IF r.kind = "raise" THEN "escaped" ELSE "failure"

PingCall == Call("ping", "ping", "in_ping")

\* Variant: the DNS probe is left out, the TCP probe follows ping.
PingReturn_skip_dns ==
    /\ pc = "in_ping"
    /\ \E o \in PingOutcomes :
         LET r == check_ping(o) IN
         /\ under' = [under EXCEPT ![idx]["ping"] = Underlying(o = "rc0", r)]
         /\ IF r.kind = "return"
            THEN /\ ping_ok' = r.value /\ pc' = "port" /\ escaped' = escaped
            ELSE /\ ping_ok' = ping_ok /\ pc' = "fatal" /\ escaped' = r.exc
    /\ UNCHANGED <<file, hosts, idx, host, dns_ok, port_ok, results, outfile,
                   handed, calls>>

\* ping_ok = check_ping(host, args.timeout)
PingReturn ==
    /\ pc = "in_ping"
    /\ \E o \in PingOutcomes :
         LET r == check_ping(o) IN
         /\ under' = [under EXCEPT ![idx]["ping"] = Underlying(o = "rc0", r)]
         /\ IF r.kind = "return"
            THEN /\ ping_ok' = r.value /\ pc' = "dns" /\ escaped' = escaped
            ELSE /\ ping_ok' = ping_ok /\ pc' = "fatal" /\ escaped' = r.exc
    /\ UNCHANGED <<file, hosts, idx, host, dns_ok, port_ok, results, outfile,
                   handed, calls>>

DnsCall == Call("dns", "dns", "in_dns")

\* dns_ok = check_dns(host)
DnsReturn ==
    /\ pc = "in_dns"
    /\ \E o \in DnsOutcomes(host) :
         LET r == check_dns(o) IN
         /\ under' = [under EXCEPT ![idx]["dns"] = Underlying(o = "resolved", r)]
         /\ IF r.kind = "return"
            THEN /\ dns_ok' = r.value /\ pc' = "port" /\ escaped' = escaped
            ELSE /\ dns_ok' = dns_ok /\ pc' = "fatal" /\ escaped' = r.exc
    /\ UNCHANGED <<file, hosts, idx, host, ping_ok, port_ok, results, outfile,
                   handed, calls>>

TcpCall == Call("port", "port", "in_port")

\* Variant: a failed TCP probe is tried once more.
TcpReturn_retry ==
    /\ pc = "in_port"
    /\ \E o \in TcpOutcomes(host) :
         LET r == check_tcp_port(o) IN
         /\ under' = [under EXCEPT ![idx]["port"] = Underlying(o = "connected", r)]
         /\ IF r.kind = "return"
            THEN /\ port_ok' = r.value
                 /\ pc' = IF ~r.value /\ calls[idx]["port"] < 2
                          THEN "port" ELSE "append"
                 /\ escaped' = escaped
            ELSE /\ port_ok' = port_ok /\ pc' = "fatal" /\ escaped' = r.exc
    /\ UNCHANGED <<file, hosts, idx, host, ping_ok, dns_ok, results, outfile,
                   handed, calls>>

\* port_ok = check_tcp_port(host, args.port, args.timeout)
TcpReturn ==
    /\ pc = "in_port"
    /\ \E o \in TcpOutcomes(host) :
         LET r == check_tcp_port(o) IN
         /\ under' = [under EXCEPT ![idx]["port"] = Underlying(o = "connected", r)]
         /\ IF r.kind = "return"
            THEN /\ port_ok' = r.value /\ pc' = "append" /\ escaped' = escaped
            ELSE /\ port_ok' = port_ok /\ pc' = "fatal" /\ escaped' = r.exc
    /\ UNCHANGED <<file, hosts, idx, host, ping_ok, dns_ok, results, outfile,
                   handed, calls>>

\* Variant: the append is outside the loop body, after the last host.
AppendResult_after_loop ==
    /\ pc = "append"
    /\ results' = IF idx < Len(hosts) THEN results
                  ELSE Append(results, Row(host, ping_ok, dns_ok, port_ok))
    /\ pc' = "for"
    /\ UNCHANGED <<file, hosts, idx, host, ping_ok, dns_ok, port_ok, outfile,
                   handed, under, calls, escaped>>

\* Variant: results is reset inside the loop body.
AppendResult_reset ==
    /\ pc = "append"
    /\ results' = <<Row(host, ping_ok, dns_ok, port_ok)>>
    /\ pc' = "for"
    /\ UNCHANGED <<file, hosts, idx, host, ping_ok, dns_ok, port_ok, outfile,
                   handed, under, calls, escaped>>

\* Variant: the file is written inside the loop body, after every append.
AppendResult_and_write ==
    /\ pc = "append"
    /\ results' = Append(results, Row(host, ping_ok, dns_ok, port_ok))
    /\ handed' = Append(handed, results')
    /\ outfile' = [exists |-> TRUE, header |-> TRUE, rows |-> results']
    /\ pc' = "for"
    /\ UNCHANGED <<file, hosts, idx, host, ping_ok, dns_ok, port_ok, under,
                   calls, escaped>>

\* results.append({...})
AppendResult ==
    /\ pc = "append"
    /\ results' = Append(results, Row(host, ping_ok, dns_ok, port_ok))
    /\ pc' = "for"
    /\ UNCHANGED <<file, hosts, idx, host, ping_ok, dns_ok, port_ok, outfile,
                   handed, under, calls, escaped>>

\* write_results(results, output): open(output, "w") creates or truncates
\* the file, then the header and every row are written.
write_results(rows, fault) ==
    IF fault = "none" THEN [exists |-> TRUE, header |-> TRUE, rows |-> rows]
    ELSE outfile

WriteResults ==
    /\ pc = "write"
    /\ handed' = Append(handed, results)
    /\ \E fault \in WriteFaults :
         /\ outfile' = write_results(results, fault)
         /\ IF fault = "none"
            THEN pc' = "done" /\ escaped' = escaped
            ELSE pc' = "fatal" /\ escaped' = fault
    /\ UNCHANGED <<file, hosts, idx, host, ping_ok, dns_ok, port_ok, results,
                   under, calls>>

\* ------------------------------------------------------------ host states
\* A host is Done once its result slot is filled, Running once its first
\* probe has been started, Pending before that.
Done(i) == i <= Len(results)
Started(i) == under[i]["ping"] # "idle"
HostState(i) ==
    IF Done(i) THEN "Done" ELSE IF Started(i) THEN "Running" ELSE "Pending"
Rank(s) == CASE s = "Pending" -> 0 [] s = "Running" -> 1 [] s = "Done" -> 2
RunningHosts == {i \in 1..Len(hosts) : HostState(i) = "Running"}
Finished(i, p) == under[i][p] \in {"success", "failure"}

\* The for loop of main takes one host at a time: the effective limit on
\* simultaneously probed hosts.
concurrency == 1

\* ------------------------------------------------- input, stated directly
NonBlank(lines) ==
    {j \in 1..Len(lines) : \E k \in 1..Len(lines[j]) : lines[j][k] \notin Whitespace}
Trimmed(l) ==
    LET nz == {k \in 1..Len(l) : l[k] \notin Whitespace}
        lo == CHOOSE k \in nz : \A m \in nz : k <= m
        hi == CHOOSE k \in nz : \A m \in nz : k >= m
    IN  SubSeq(l, lo, hi)
NthNonBlank(lines, i) ==
    CHOOSE j \in NonBlank(lines) : Cardinality({k \in NonBlank(lines) : k <= j}) = i

\* ================================================================= claims

\* C1: when main runs to completion, the rows handed to write_results are,
\* in order, one per non-blank input line, each with that line trimmed as
\* its host; an input without non-blank lines yields a file holding the
\* header and no data row.
C1_RowsFollowInput ==
    pc = "done" =>
        /\ Len(handed) = 1
        /\ Len(handed[1]) = Cardinality(NonBlank(file.lines))
        /\ \A i \in 1..Len(handed[1]) :
             handed[1][i].host = Trimmed(file.lines[NthNonBlank(file.lines, i)])
        /\ NonBlank(file.lines) = {} =>
             outfile = [exists |-> TRUE, header |-> TRUE, rows |-> <<>>]

C1_Witness ==
    /\ pc = "done"
    /\ Len(file.lines) = 2
    /\ file.lines[1] = <<" ", "b", " ">>
    /\ file.lines[2] = <<"a", " ">>
    /\ Len(handed[1]) = 2
    /\ handed[1][1].host = <<"b">>

\* C2: no fault raised by a probe's underlying operation leaves the probe:
\* every probe invocation ends in a boolean.
C2_NoFaultLeavesProbe ==
    \A i \in HostIdx : \A p \in ProbeNames : under[i][p] # "escaped"

\* C3: the sweep does not abort on a host: once the input has been read,
\* a run that has ended has recorded a result for every host and has handed
\* the complete result sequence to write_results.
C3_SweepCompletes ==
    (pc \in {"done", "fatal"} /\ file.fault = "none") =>
        /\ Len(results) = Len(hosts)
        /\ handed = <<results>>

C5_ConcurrencyBound == Cardinality(RunningHosts) <= concurrency

C5_Witness ==
    /\ Len(hosts) = 2
    /\ HostState(1) = "Done"
    /\ HostState(2) = "Running"
    /\ under[2]["port"] = "running"

\* C6: every status of every recorded row is "OK" or "FAIL", and it is "OK"
\* exactly when the underlying operation of that probe succeeded.
RowOk(row, i) ==
    /\ row.ping_status \in {"OK", "FAIL"}
    /\ row.dns_status \in {"OK", "FAIL"}
    /\ row.port_status \in {"OK", "FAIL"}
    /\ row.ping_status = "OK" <=> under[i]["ping"] = "success"
    /\ row.dns_status = "OK" <=> under[i]["dns"] = "success"
    /\ row.port_status = "OK" <=> under[i]["port"] = "success"

C6_StatusOkOrFail ==
    /\ \A i \in 1..Len(results) : RowOk(results[i], i)
    /\ \A i \in 1..Len(outfile.rows) : RowOk(outfile.rows[i], i)

C6_Witness ==
    /\ Len(outfile.rows) = 2
    /\ outfile.rows[1].ping_status = "OK"
    /\ outfile.rows[1].port_status = "FAIL"
    /\ outfile.rows[2].ping_status = "FAIL"
    /\ outfile.rows[2].dns_status = "OK"

\* C7: no probe is ever invoked twice for a host entry, and in a run that
\* ran to completion every probe was invoked exactly once for every entry.
C7_ExactlyOnce ==
    /\ \A i \in HostIdx : \A p \in ProbeNames : calls[i][p] <= 1
    /\ pc = "done" =>
         \A i \in HostIdx : \A p \in ProbeNames :
             calls[i][p] = IF i <= Len(hosts) THEN 1 ELSE 0

C7_Witness ==
    /\ pc = "done"
    /\ Len(hosts) = 2
    /\ hosts[1] = hosts[2]
    /\ \A p \in ProbeNames : under[1][p] = "failure"

\* C8: when reading the input fails the run ends fatally with no probe
\* invoked and the output file untouched; and no probe is invoked and
\* write_results is not called before the input has been read in full.
NoProbeInvoked == \A i \in HostIdx : \A p \in ProbeNames : calls[i][p] = 0

C8_ReadFailureIsFatal ==
    /\ (file.fault # "none" /\ pc # "read") =>
         /\ pc = "fatal"
         /\ escaped = file.fault
         /\ NoProbeInvoked
         /\ outfile = NoFile
         /\ handed = <<>>
    /\ pc = "read" => (NoProbeInvoked /\ outfile = NoFile /\ handed = <<>>)

C8_Witness ==
    /\ pc = "fatal"
    /\ file.fault = "UnicodeDecodeError"
    /\ Len(file.lines) = 2
    /\ outfile = NoFile

\* C9: every step moves each host at most one state forward, fills at most
\* one result slot - the next one, for a Running host, with that host's
\* row - and leaves every slot filled before as it was.
C9_Step ==
    /\ \A i \in HostIdx :
         /\ Rank(HostState(i)') >= Rank(HostState(i))
         /\ Rank(HostState(i)') <= Rank(HostState(i)) + 1
    /\ Len(results') \in {Len(results), Len(results) + 1}
    /\ \A i \in 1..Len(results) : results'[i] = results[i]
    /\ Len(results') = Len(results) + 1 =>
         /\ HostState(Len(results) + 1) = "Running"
         /\ results'[Len(results) + 1].host = hosts[Len(results) + 1]

C9_ForwardOnly == [][C9_Step]_vars

C9_Witness ==
    /\ Len(results) = 2
    /\ results[1] # results[2]
    /\ pc = "write"

\* C10: write_results is called at most once and only when every host has
\* a recorded result; while some host is Pending or Running, and after a
\* fault stopped the sweep, the output file has not been touched.
C10_AllOrNothing ==
    /\ Len(handed) <= 1
    /\ (handed # <<>> \/ outfile # NoFile) =>
         /\ pc \in {"done", "fatal"}
         /\ Len(results) = Len(hosts)
         /\ handed = <<results>>
    /\ (\E i \in 1..Len(hosts) : HostState(i) # "Done") =>
         (outfile = NoFile /\ handed = <<>>)

C10_Witness ==
    /\ pc = "fatal"
    /\ Len(results) = 1
    /\ under[2]["dns"] = "escaped"
    /\ outfile = NoFile

Next ==
    \/ ReadHosts
    \/ ForNext
    \/ PingCall
    \/ PingReturn
    \/ DnsCall
    \/ DnsReturn
    \/ TcpCall
    \/ TcpReturn
    \/ AppendResult
    \/ WriteResults

Spec == Init /\ [][Next]_vars

====
